---- MODULE Spec2Model ----
(***************************************************************************)
(* Model of the generated binding capnp/persistent.capnp.h: the Persistent *)
(* capability interface (Client, Server, dispatch) and its two message     *)
(* structs SaveParams and SaveResults (Reader/Builder accessors of pointer *)
(* field 0).  The serialization/RPC runtime the binding calls into         *)
(* (StructReader, PointerHelpers, Capability::Client, internalUnimplemented*)
(* ...) is modelled from the specification of that runtime.                *)
(***************************************************************************)
EXTENDS Integers, Sequences, FiniteSets, TLC

VARIABLES
    \* ---- capability / dispatch layer
    impl,         \* which body the Server's virtual save() has
    cap,          \* per capability reference: its resolution state
    capTrace,     \* per reference: the resolution states it went through
    queue,        \* per reference: calls issued and not yet delivered
    issued,       \* per reference: every call issued on it, in issue order
    calls,        \* per call id: the request and what the caller sees of it
    dispatchLog,  \* the Server's dispatchCall invocations, in delivery order
    serverState,  \* "running" or "crashed"
    \* ---- message layer
    ty,           \* the struct type being built and read: SaveParams or SaveResults
    brand,        \* the instantiation <SturdyRef, Owner> of the template
    objs,         \* the arena: every value allocated so far, never freed
    structs,      \* the encoded structs: pointer-section size and slots
    orphans,      \* values disowned and not adopted again
    rd,           \* the Reader currently held
    gen,          \* the view last made by asPersistentGeneric, and of what
    lastOp        \* the last Builder operation on the field and its value

rpcVars == <<impl, cap, capTrace, queue, issued, calls, dispatchLog, serverState>>
msgVars == <<ty, brand, objs, structs, orphans, rd, gen, lastOp>>
vars == <<impl, cap, capTrace, queue, issued, calls, dispatchLog, serverState,
          ty, brand, objs, structs, orphans, rd, gen, lastOp>>

----------------------------------------------------------------------------
(* Bounds of the model *)

MaxCalls == 2
MaxAlloc == 2
MaxData == 1
MaxPtrWords == 1

----------------------------------------------------------------------------
(* Wire keys.  A 64-bit id is kept as its four 16-bit words, high first.   *)

\* 0xc8cb212fcd9f5691
PersistentTypeId == <<51403, 8495, 52639, 22161>>

InterfaceName == "capnp/persistent.capnp:Persistent"

\* interface ids a caller may put in a request: the Persistent id and an id
\* that differs from it in the lowest bit only
InterfaceIds == { PersistentTypeId, <<51403, 8495, 52639, 22160>> }

\* uint16_t method ids
MethodIds == {0, 65535}

Refs == {1, 2}
CallIds == 1..MaxCalls

----------------------------------------------------------------------------
(* Values carried by pointer fields *)

\* the kinds of type a generic parameter (SturdyRef, Owner) can be bound to
Kinds == {"AnyPointer", "Struct", "Text"}

NullValue == [kind |-> "Null", data |-> 0]

\* non-null values; data 0 is the all-default value of its kind (an empty
\* struct, an empty text), which is still a non-null pointer once stored
Values == [kind : {"Struct", "Text"}, data : 0..MaxData]

----------------------------------------------------------------------------
(* Promises, exceptions and dispatch results *)

NoException ==
    [type |-> "none", interfaceName |-> "", methodName |-> "",
     typeId |-> <<>>, methodId |-> -1]

Promise(state, exception) == [state |-> state, exception |-> exception]

\* Capability::Server::internalUnimplemented(interfaceName, typeId)
internalUnimplementedInterface(actualInterfaceName, requestedTypeId) ==
    [promise |-> Promise("rejected",
        [type |-> "UnimplementedInterface",
         interfaceName |-> actualInterfaceName, methodName |-> "",
         typeId |-> requestedTypeId, methodId |-> -1]),
     isStreaming |-> FALSE, allowCancellation |-> TRUE]

\* Capability::Server::internalUnimplemented(interfaceName, typeId, methodId)
internalUnimplementedMethodId(interfaceName, typeId, methodId) ==
    [promise |-> Promise("rejected",
        [type |-> "UnimplementedMethod",
         interfaceName |-> interfaceName, methodName |-> "",
         typeId |-> typeId, methodId |-> methodId]),
     isStreaming |-> FALSE, allowCancellation |-> TRUE]

\* Capability::Server::internalUnimplemented(interfaceName, methodName,
\* typeId, methodId): a rejected promise, returned (not thrown, no abort)
internalUnimplementedMethod(interfaceName, methodName, typeId, methodId) ==
    Promise("rejected",
        [type |-> "UnimplementedMethod",
         interfaceName |-> interfaceName, methodName |-> methodName,
         typeId |-> typeId, methodId |-> methodId])

ApplicationError ==
    [type |-> "ApplicationError", interfaceName |-> "", methodName |-> "",
     typeId |-> <<>>, methodId |-> -1]

CapabilityBroken ==
    [type |-> "CapabilityBroken", interfaceName |-> "", methodName |-> "",
     typeId |-> <<>>, methodId |-> -1]

IsUnimplemented(p) ==
    /\ p.state = "rejected"
    /\ p.exception.type \in {"UnimplementedInterface", "UnimplementedMethod"}

----------------------------------------------------------------------------
(* Call contexts *)

\* CallContext<AnyPointer, AnyPointer>: the hook of one in-flight call, with
\* its params (read-only) and its results (filled by the handler)
Context(callId, params, results) ==
    [hook |-> callId, typed |-> FALSE, params |-> params, results |-> results]

\* Capability::Server::internalGetTypedContext<Params, Results>(context):
\* a typed view of the same hook
internalGetTypedContext(context) == [context EXCEPT !.typed = TRUE]

----------------------------------------------------------------------------
(* Persistent::Server *)

\* the bodies save() can have: the generated default, or an override of the
\* application that fills the results at once or answers (or fails) later
SaveImpls == {"default", "sync", "async"}

\* the durable reference an overriding save() produces
SturdyRefOf(context) == [kind |-> "Text", data |-> 1]

\* a default body that aborts instead of returning a failure
Mut_Server_save(context) ==
    [promise |-> Promise("aborted", NoException), context |-> context]

\* Persistent::Server::save, the generated default body
Server_save(context) ==
    [promise |-> internalUnimplementedMethod(InterfaceName, "save",
                                             PersistentTypeId, 0),
     context |-> context]

\* the virtual call save(context): the override when the Server has one
save(context) ==
    CASE impl = "default" -> Server_save(context)
      [] impl = "sync" ->
            [promise |-> Promise("fulfilled", NoException),
             context |-> [context EXCEPT !.results = SturdyRefOf(context)]]
      [] impl = "async" ->
            [promise |-> Promise("pending", NoException), context |-> context]

\* dispatchCallInternal with case 0 missing from the switch
Mut_dispatchCallInternal_noCase(methodId, context) ==
    [result |-> internalUnimplementedMethodId(InterfaceName,
                                              PersistentTypeId, methodId),
     invoked |-> <<>>,
     context |-> context]

\* dispatchCallInternal with save as the default of the switch
Mut_dispatchCallInternal_allSave(methodId, context) ==
    LET typedContext == internalGetTypedContext(context)
        h == save(typedContext)
    IN  [result |-> [promise |-> h.promise, isStreaming |-> FALSE,
                     allowCancellation |-> FALSE],
         invoked |-> <<[handler |-> "save", context |-> typedContext,
                        returned |-> h.promise]>>,
         context |-> [h.context EXCEPT !.typed = FALSE]]

\* dispatchCallInternal returning {save(...), false, true}
Mut_dispatchCallInternal_allowCancellation(methodId, context) ==
    IF methodId = 0
    THEN LET typedContext == internalGetTypedContext(context)
             h == save(typedContext)
         IN  [result |-> [promise |-> h.promise, isStreaming |-> FALSE,
                          allowCancellation |-> TRUE],
              invoked |-> <<[handler |-> "save", context |-> typedContext,
                             returned |-> h.promise]>>,
              context |-> [h.context EXCEPT !.typed = FALSE]]
    ELSE [result |-> internalUnimplementedMethodId(InterfaceName,
                                                   PersistentTypeId, methodId),
          invoked |-> <<>>,
          context |-> context]

\* Persistent::Server::dispatchCallInternal.  The value is the
\* DispatchCallResult, the handlers the dispatch invoked (each with the
\* context it got and the promise it returned) and the context afterwards.
dispatchCallInternal(methodId, context) ==
    IF methodId = 0
    THEN LET typedContext == internalGetTypedContext(context)
             h == save(typedContext)
         IN  [result |-> [promise |-> h.promise, isStreaming |-> FALSE,
                          allowCancellation |-> FALSE],
              invoked |-> <<[handler |-> "save", context |-> typedContext,
                             returned |-> h.promise]>>,
              context |-> [h.context EXCEPT !.typed = FALSE]]
    ELSE [result |-> internalUnimplementedMethodId(InterfaceName,
                                                   PersistentTypeId, methodId),
          invoked |-> <<>>,
          context |-> context]

\* dispatchCall that does not look at the interface id
Mut_dispatchCall(interfaceId, methodId, context) ==
    dispatchCallInternal(methodId, context)

\* Persistent::Server::dispatchCall
dispatchCall(interfaceId, methodId, context) ==
    IF interfaceId = PersistentTypeId
    THEN dispatchCallInternal(methodId, context)
    ELSE [result |-> internalUnimplementedInterface(InterfaceName, interfaceId),
          invoked |-> <<>>,
          context |-> context]

----------------------------------------------------------------------------
(* Persistent::Client *)

\* Capability::Client constructed from a hook, a server, a promise or an
\* exception: the resolution state the capability reference starts in
CapabilityClient(from) ==
    CASE from \in {"hook", "server"} -> "Resolved"
      [] from = "promise" -> "Unresolved"
      [] from = "exception" -> "Broken"

\* Client(kj::Own<ClientHook>&& hook)
Client_fromHook == CapabilityClient("hook")

\* Client(kj::Own<_t>&& server)
Client_fromServer == CapabilityClient("server")

Mut_Client_fromPromise == CapabilityClient("server")

\* Client(kj::Promise<_t>&& promise)
Client_fromPromise == CapabilityClient("promise")

\* Client(kj::Exception&& exception)
Client_fromException == CapabilityClient("exception")

Constructors == {"hook", "server", "promise", "exception"}

\* the Client a caller constructs from an argument of the given sort
Client(from) ==
    [state |-> CASE from = "hook" -> Client_fromHook
                 [] from = "server" -> Client_fromServer
                 [] from = "promise" -> Client_fromPromise
                 [] from = "exception" -> Client_fromException,
     from |-> from]

\* Capability::Client::newCall: a request addressed by its wire keys
newCall(interfaceId, methodId, sizeHint, hints) ==
    [interfaceId |-> interfaceId, methodId |-> methodId,
     sizeHint |-> sizeHint, hints |-> hints]

\* a saveRequest whose interface id depends on the instantiation
Mut_saveRequest(sizeHint) ==
    newCall(IF brand.SturdyRef = "AnyPointer" /\ brand.Owner = "AnyPointer"
            THEN PersistentTypeId
            ELSE <<51403, 8495, 52639, 22160>>,
            0, sizeHint, [noPromisePipelining |-> FALSE])

\* Persistent::Client::saveRequest
saveRequest(sizeHint) ==
    newCall(PersistentTypeId, 0, sizeHint, [noPromisePipelining |-> FALSE])

----------------------------------------------------------------------------
(* The capability layer as a state machine *)

Unissued ==
    [ref |-> 0, via |-> "none", interfaceId |-> <<>>, methodId |-> -1,
     params |-> NullValue, results |-> NullValue, issuedWhile |-> "none",
     droppedWhile |-> "none",
     state |-> "unissued", exception |-> NoException]

NextId == 1 + Len(issued[1]) + Len(issued[2])

InitRpc ==
    /\ impl \in SaveImpls
    /\ \E from \in [Refs -> Constructors] :
          cap = [r \in Refs |-> Client(from[r])]
    /\ capTrace = [r \in Refs |-> <<cap[r].state>>]
    /\ queue = [r \in Refs |-> <<>>]
    /\ issued = [r \in Refs |-> <<>>]
    /\ calls = [i \in CallIds |-> Unissued]
    /\ dispatchLog = <<>>
    /\ serverState = "running"

\* Request::send on reference r: the call joins the reference's queue
Send(r, req, via, params) ==
    /\ NextId <= MaxCalls
    /\ calls' = [calls EXCEPT ![NextId] =
                    [ref |-> r, via |-> via, interfaceId |-> req.interfaceId,
                     methodId |-> req.methodId, params |-> params,
                     results |-> NullValue, issuedWhile |-> cap[r].state,
                     droppedWhile |-> "none",
                     state |-> "queued", exception |-> NoException]]
    /\ issued' = [issued EXCEPT ![r] = Append(@, NextId)]
    /\ queue' = [queue EXCEPT ![r] = Append(@, NextId)]
    /\ UNCHANGED <<impl, cap, capTrace, dispatchLog, serverState>>

\* a caller makes a save request on reference r and sends it
SaveRequestSend(r) ==
    /\ \E sizeHint \in {"none", "some"} :
          Send(r, saveRequest(sizeHint), "saveRequest",
               [kind |-> "Struct", data |-> 1])
    /\ UNCHANGED msgVars

\* a caller sends a typeless request with keys of its choosing
TypelessSend(r) ==
    /\ \E interfaceId \in InterfaceIds, methodId \in MethodIds :
          Send(r, newCall(interfaceId, methodId, "none",
                          [noPromisePipelining |-> FALSE]),
               "typeless", NullValue)
    /\ UNCHANGED msgVars

\* the promise behind reference r resolves to the Server
Resolve(r) ==
    /\ cap[r].state = "Unresolved"
    /\ cap' = [cap EXCEPT ![r].state = "Resolved"]
    /\ capTrace' = [capTrace EXCEPT ![r] = Append(@, "Resolved")]
    /\ UNCHANGED <<impl, queue, issued, calls, dispatchLog, serverState>>
    /\ UNCHANGED msgVars

\* the promise behind reference r is rejected
Break(r) ==
    /\ cap[r].state = "Unresolved"
    /\ cap' = [cap EXCEPT ![r].state = "Broken"]
    /\ capTrace' = [capTrace EXCEPT ![r] = Append(@, "Broken")]
    /\ UNCHANGED <<impl, queue, issued, calls, dispatchLog, serverState>>
    /\ UNCHANGED msgVars

CallStateOf(promise) ==
    CASE promise.state = "fulfilled" -> "fulfilled"
      [] promise.state = "rejected" -> "failed"
      [] promise.state = "pending" -> "running"
      [] OTHER -> "lost"

Mut_Dequeue(q) == [call |-> q[Len(q)], rest |-> SubSeq(q, 1, Len(q) - 1)]

\* the call the event loop takes from a reference's queue: the oldest
Dequeue(q) == [call |-> Head(q), rest |-> Tail(q)]

\* the event loop delivers the oldest queued call of reference r: to the
\* Server's dispatchCall when r is Resolved, as a failure when r is Broken
Deliver(r) ==
    /\ cap[r].state # "Unresolved"
    /\ queue[r] # <<>>
    /\ LET id == Dequeue(queue[r]).call
           c == calls[id]
           context == Context(id, c.params, c.results)
           out == dispatchCall(c.interfaceId, c.methodId, context)
       IN  IF cap[r].state = "Broken"
           THEN /\ calls' = [calls EXCEPT ![id].state = "failed",
                                          ![id].exception = CapabilityBroken]
                /\ UNCHANGED <<dispatchLog, serverState>>
           ELSE /\ serverState = "running"
                /\ dispatchLog' = Append(dispatchLog,
                      [ref |-> r, callId |-> id, interfaceId |-> c.interfaceId,
                       methodId |-> c.methodId, context |-> context,
                       out |-> out])
                /\ calls' = [calls EXCEPT
                      ![id].state = CallStateOf(out.result.promise),
                      ![id].exception = out.result.promise.exception,
                      ![id].results = out.context.results]
                /\ serverState' =
                      IF out.result.promise.state
                            \in {"fulfilled", "rejected", "pending"}
                      THEN "running" ELSE "crashed"
    /\ queue' = [queue EXCEPT ![r] = Dequeue(@).rest]
    /\ UNCHANGED <<impl, cap, capTrace, issued>>
    /\ UNCHANGED msgVars

\* a pending promise returned by an overriding save() completes
Complete(id) ==
    /\ calls[id].state = "running"
    /\ \/ calls' = [calls EXCEPT ![id].state = "fulfilled",
                       ![id].results =
                           SturdyRefOf(Context(id, calls[id].params,
                                               calls[id].results))]
       \/ calls' = [calls EXCEPT ![id].state = "failed",
                                 ![id].exception = ApplicationError]
    /\ UNCHANGED <<impl, cap, capTrace, queue, issued, dispatchLog, serverState>>
    /\ UNCHANGED msgVars

\* a queue without the call id
Without(q, id) == SelectSeq(q, LAMBDA c : c # id)

\* whether the dispatch of call id returned allowCancellation = true
AllowsCancellation(id) ==
    \E i \in 1..Len(dispatchLog) :
        /\ dispatchLog[i].callId = id
        /\ dispatchLog[i].out.result.allowCancellation

\* the caller drops the completion handle of the pending call id.  A call
\* still queued is cancelled and never delivered; a call already delivered
\* is cancelled only if its dispatch result allows cancellation, and goes on
\* to completion otherwise, its result ignored
DropHandle(id) ==
    /\ calls[id].state \in {"queued", "running"}
    /\ calls[id].droppedWhile = "none"
    /\ IF calls[id].state = "queued" \/ AllowsCancellation(id)
       THEN /\ calls' = [calls EXCEPT ![id].state = "cancelled",
                                      ![id].droppedWhile = calls[id].state]
            /\ queue' = [r \in Refs |-> Without(queue[r], id)]
       ELSE /\ calls' = [calls EXCEPT ![id].droppedWhile = "running"]
            /\ UNCHANGED queue
    /\ UNCHANGED <<impl, cap, capTrace, issued, dispatchLog, serverState>>
    /\ UNCHANGED msgVars

NextRpc ==
    \/ \E r \in Refs : SaveRequestSend(r)
    \/ \E r \in Refs : TypelessSend(r)
    \/ \E r \in Refs : Resolve(r)
    \/ \E r \in Refs : Break(r)
    \/ \E r \in Refs : Deliver(r)
    \/ \E id \in CallIds : Complete(id)

\* the capability layer alone: no message is being built or read
InitRpcOnly ==
    /\ InitRpc
    /\ ty = "SaveParams"
    /\ brand = [SturdyRef |-> "AnyPointer", Owner |-> "AnyPointer"]
    /\ objs = <<>> /\ structs = <<>> /\ orphans = {} /\ rd = <<>>
    /\ gen = <<>> /\ lastOp = <<>>

SpecRpc == InitRpcOnly /\ [][NextRpc]_vars

\* Client and Server of one instantiation Persistent<SturdyRef, Owner>, any
\* of them, the references made from the Server
InitKeys ==
    /\ impl \in SaveImpls
    /\ cap = [r \in Refs |-> Client("server")]
    /\ capTrace = [r \in Refs |-> <<cap[r].state>>]
    /\ queue = [r \in Refs |-> <<>>]
    /\ issued = [r \in Refs |-> <<>>]
    /\ calls = [i \in CallIds |-> Unissued]
    /\ dispatchLog = <<>>
    /\ serverState = "running"
    /\ ty = "SaveParams"
    /\ brand \in [SturdyRef : Kinds, Owner : Kinds]
    /\ objs = <<>> /\ structs = <<>> /\ orphans = {} /\ rd = <<>>
    /\ gen = <<>> /\ lastOp = <<>>

NextKeys ==
    \/ \E r \in Refs : SaveRequestSend(r)
    \/ \E r \in Refs : TypelessSend(r)
    \/ \E r \in Refs : Deliver(r)
    \/ \E id \in CallIds : Complete(id)

SpecKeys == InitKeys /\ [][NextKeys]_vars

\* save calls whose completion handle the caller may drop
NextCancel ==
    \/ \E r \in Refs : SaveRequestSend(r)
    \/ \E r \in Refs : Resolve(r)
    \/ \E r \in Refs : Break(r)
    \/ \E r \in Refs : Deliver(r)
    \/ \E id \in CallIds : Complete(id)
    \/ \E id \in CallIds : DropHandle(id)

\* the event loop keeps driving the promise a handler returned until it
\* settles
SpecCancel ==
    /\ InitRpcOnly
    /\ [][NextCancel]_vars
    /\ \A id \in CallIds : WF_vars(Complete(id))

----------------------------------------------------------------------------
(* Claims about dispatch *)

LogIndex == 1..Len(dispatchLog)

IsSaveKeys(e) == e.interfaceId = PersistentTypeId /\ e.methodId = 0

\* the dispatch invoked the save handler, once, with the call's own context,
\* and returned the promise that handler returned
InvokedSaveOnce(e) ==
    /\ Len(e.out.invoked) = 1
    /\ e.out.invoked[1].handler = "save"
    /\ e.out.invoked[1].context = internalGetTypedContext(e.context)
    /\ e.out.invoked[1].context.hook = e.callId
    /\ e.out.result.promise = e.out.invoked[1].returned

C2_UnknownInterface ==
    \A i \in LogIndex :
        dispatchLog[i].interfaceId # PersistentTypeId =>
            /\ dispatchLog[i].out.invoked = <<>>
            /\ dispatchLog[i].out.result.promise =
                  Promise("rejected",
                      [type |-> "UnimplementedInterface",
                       interfaceName |-> InterfaceName, methodName |-> "",
                       typeId |-> dispatchLog[i].interfaceId,
                       methodId |-> -1])
            /\ calls[dispatchLog[i].callId].state = "failed"

C2_Witness ==
    \E i \in LogIndex :
        /\ dispatchLog[i].interfaceId # PersistentTypeId
        /\ dispatchLog[i].methodId = 0
        /\ impl = "sync"

\* C3: for interfaceId 0xc8cb212fcd9f5691 and every methodId other than 0,
\* dispatchCall fails with UnimplementedMethod carrying the interface name,
\* the interface id and the requested methodId; save is not invoked and the
\* context's params and results are left as they were.
C3_UnknownMethod ==
    \A i \in LogIndex :
        (dispatchLog[i].interfaceId = PersistentTypeId
            /\ dispatchLog[i].methodId # 0) =>
            /\ dispatchLog[i].out.invoked = <<>>
            /\ dispatchLog[i].out.result.promise =
                  Promise("rejected",
                      [type |-> "UnimplementedMethod",
                       interfaceName |-> InterfaceName, methodName |-> "",
                       typeId |-> PersistentTypeId,
                       methodId |-> dispatchLog[i].methodId])
            /\ dispatchLog[i].out.context = dispatchLog[i].context
            /\ calls[dispatchLog[i].callId].results = NullValue
            /\ calls[dispatchLog[i].callId].state = "failed"

C3_Witness ==
    \E i \in LogIndex :
        /\ dispatchLog[i].interfaceId = PersistentTypeId
        /\ dispatchLog[i].methodId = 65535
        /\ impl = "sync"

\* the failure the generated default body of save describes
SaveUnimplemented ==
    [type |-> "UnimplementedMethod", interfaceName |-> InterfaceName,
     methodName |-> "save", typeId |-> PersistentTypeId, methodId |-> 0]

\* C4: when the Server does not override save, a dispatched save call ends
\* in an UnimplementedMethod failure naming the interface, "save", the
\* interface id and ordinal 0; the caller sees it as the call's failure, the
\* results are never filled, and the Server neither crashes nor stops
\* taking calls.
C4_DefaultSave ==
    /\ serverState = "running"
    /\ \A r \in Refs :
          (cap[r].state = "Resolved" /\ queue[r] # <<>>) => ENABLED Deliver(r)
    /\ impl = "default" =>
          \A i \in LogIndex :
              IsSaveKeys(dispatchLog[i]) =>
                  /\ dispatchLog[i].out.result.promise =
                        Promise("rejected", SaveUnimplemented)
                  /\ calls[dispatchLog[i].callId].state = "failed"
                  /\ calls[dispatchLog[i].callId].exception = SaveUnimplemented
                  /\ calls[dispatchLog[i].callId].results = NullValue

\* a default save was dispatched and failed, and a later call was handled
C4_Witness ==
    /\ impl = "default"
    /\ \E i, j \in LogIndex :
          /\ i < j
          /\ IsSaveKeys(dispatchLog[i])
          /\ calls[dispatchLog[i].callId].exception = SaveUnimplemented
          /\ IsSaveKeys(dispatchLog[j])

----------------------------------------------------------------------------
(* Claims about capability references *)

AllowedTraces(from) ==
    CASE from = "promise" ->
            { <<"Unresolved">>, <<"Unresolved", "Resolved">>,
              <<"Unresolved", "Broken">> }
      [] from \in {"hook", "server"} -> { <<"Resolved">> }
      [] from = "exception" -> { <<"Broken">> }

DeliveriesOf(id) ==
    Cardinality({i \in LogIndex : dispatchLog[i].callId = id})

PlacesInQueue(r, id) == {k \in 1..Len(queue[r]) : queue[r][k] = id}

\* C9: a reference made from a promise starts Unresolved and moves at most
\* once, to Resolved or Broken, and stays there; one made from a server or a
\* hook is Resolved and one made from an exception is Broken from the start.
\* A call issued while the reference is Unresolved is held in its queue; once
\* the target is known each call is delivered to dispatchCall exactly once
\* (or failed, undelivered, if Broken): none is lost, none duplicated.
C9_ResolveOnce ==
    \A r \in Refs :
        /\ capTrace[r] \in AllowedTraces(cap[r].from)
        /\ cap[r].state = capTrace[r][Len(capTrace[r])]
        /\ (cap[r].state # "Unresolved" /\ queue[r] # <<>>)
              => ENABLED Deliver(r)
        /\ \A k \in 1..Len(issued[r]) :
              LET id == issued[r][k]
              IN  /\ calls[id].ref = r
                  /\ Cardinality(PlacesInQueue(r, id)) <= 1
                  /\ cap[r].state = "Unresolved" => PlacesInQueue(r, id) # {}
                  /\ PlacesInQueue(r, id) # {} =>
                        /\ calls[id].state = "queued"
                        /\ DeliveriesOf(id) = 0
                  /\ (PlacesInQueue(r, id) = {} /\ cap[r].state = "Resolved")
                        => /\ DeliveriesOf(id) = 1
                           /\ calls[id].state # "queued"
                           /\ \A i \in LogIndex :
                                 dispatchLog[i].callId = id =>
                                    /\ dispatchLog[i].ref = r
                                    /\ dispatchLog[i].interfaceId
                                          = calls[id].interfaceId
                                    /\ dispatchLog[i].methodId
                                          = calls[id].methodId
                  /\ (PlacesInQueue(r, id) = {} /\ cap[r].state = "Broken")
                        => /\ DeliveriesOf(id) = 0
                           /\ calls[id].state = "failed"
                           /\ calls[id].exception = CapabilityBroken

\* a save call issued on an Unresolved reference was held, the reference
\* resolved, and the call reached dispatchCall once
C9_Witness ==
    \E id \in CallIds :
        /\ calls[id].via = "saveRequest"
        /\ calls[id].issuedWhile = "Unresolved"
        /\ capTrace[calls[id].ref] = <<"Unresolved", "Resolved">>
        /\ DeliveriesOf(id) = 1

\* the calls of reference r the Server has been given, in delivery order
DeliveredOn(r) ==
    LET es == SelectSeq(dispatchLog, LAMBDA e : e.ref = r)
    IN  [k \in 1..Len(es) |-> es[k].callId]

\* C10: the calls issued on one capability reference reach the target's
\* dispatchCall in the order they were issued, those queued while the
\* reference was Unresolved included; so a save issued after another call is
\* dispatched after it.
C10_OrderPerReference ==
    \A r \in Refs :
        /\ cap[r].state = "Unresolved" => queue[r] = issued[r]
        /\ cap[r].state = "Resolved" => issued[r] = DeliveredOn(r) \o queue[r]
        /\ \A i, j \in LogIndex :
              (i < j /\ dispatchLog[i].ref = r /\ dispatchLog[j].ref = r)
                 => dispatchLog[i].callId < dispatchLog[j].callId

\* two calls on one reference, the first issued while it was Unresolved, the
\* second a save: both dispatched, the save last
C10_Witness ==
    \E i, j \in LogIndex :
        /\ i < j
        /\ dispatchLog[i].ref = dispatchLog[j].ref
        /\ calls[dispatchLog[i].callId].via = "typeless"
        /\ calls[dispatchLog[i].callId].issuedWhile = "Unresolved"
        /\ calls[dispatchLog[j].callId].via = "saveRequest"
        /\ Len(dispatchLog[j].out.invoked) = 1

\* calls on different references dispatched against their issue order: no
\* order holds across references
CrossReferenceInversion ==
    \E i, j \in LogIndex :
        /\ i < j
        /\ dispatchLog[i].ref # dispatchLog[j].ref
        /\ dispatchLog[i].callId > dispatchLog[j].callId

----------------------------------------------------------------------------
(* The message layer: the runtime's struct and pointer accessors *)

Types == {"SaveParams", "SaveResults"}

Brands == [SturdyRef : Kinds, Owner : Kinds]

\* CAPNP_DECLARE_STRUCT_HEADER(f76fba59183073a5, 0, 1)
SaveParams_StructSize == [dataWordCount |-> 0, pointerCount |-> 1]

\* CAPNP_DECLARE_STRUCT_HEADER(b76848c18c40efbf, 0, 1)
SaveResults_StructSize == [dataWordCount |-> 0, pointerCount |-> 1]

\* the schema default of a pointer field of the given kind
DefaultValue(kind) ==
    IF kind = "AnyPointer" THEN NullValue ELSE [kind |-> kind, data |-> 0]

\* what a typed get yields for a pointer of another kind, and what a read
\* past a struct's stored words would yield
DecodeError == [kind |-> "DecodeError", data |-> 0]
Fault == [kind |-> "Fault", data |-> 0]

\* the values a field of the given kind can be set to (ReaderFor<T>)
ValuesOfKind(kind) ==
    IF kind = "AnyPointer" THEN Values \cup {NullValue}
    ELSE {v \in Values : v.kind = kind}

\* StructReader(): bound to nothing, no data, no pointers
NullStructReader == [segment |-> "none", struct |-> "none", pointerCount |-> 0]

\* a StructReader over an encoded struct of the message
StructReaderAt(s) ==
    [segment |-> "msg", struct |-> s,
     pointerCount |-> structs[s].pointerCount]

\* PointerReader(): reads as null
NullPointerReader == [segment |-> "none", struct |-> "none", index |-> 0]

\* StructReader::getPointerField: the slot when the struct stores it, a null
\* PointerReader when the index is past the stored pointer section
StructReader_getPointerField(reader, ptrIndex) ==
    IF ptrIndex < reader.pointerCount
    THEN [segment |-> reader.segment, struct |-> reader.struct,
          index |-> ptrIndex]
    ELSE NullPointerReader

\* the word a bound pointer refers to: 0 is null, k > 0 refers to objs[k];
\* -1 stands for whatever lies behind the struct's stored words
SlotOf(p) ==
    IF p.index < Len(structs[p.struct].ptrs)
    THEN structs[p.struct].ptrs[p.index + 1]
    ELSE -1

\* PointerReader::isNull
PointerReader_isNull(p) == p.segment = "none" \/ SlotOf(p) = 0

\* PointerHelpers<T>::get(PointerReader)
PointerHelpers_get(kind, p) ==
    IF PointerReader_isNull(p) THEN DefaultValue(kind)
    ELSE IF SlotOf(p) = -1 THEN Fault
    ELSE IF kind = "AnyPointer" \/ objs[SlotOf(p)].kind = kind
         THEN objs[SlotOf(p)]
         ELSE DecodeError

\* StructBuilder::getPointerField
StructBuilder_getPointerField(builder, ptrIndex) ==
    [segment |-> "msg", struct |-> builder.struct, index |-> ptrIndex]

\* PointerBuilder::isNull
PointerBuilder_isNull(p) == SlotOf(p) = 0

\* StructBuilder::asReader: a reader over the same struct
StructBuilder_asReader(builder) == StructReaderAt(builder.struct)

\* the message with word x written into slot p and the arena grown to os
WriteSlot(p, x, os) ==
    [objs |-> os,
     structs |-> [structs EXCEPT ![p.struct].ptrs[p.index + 1] = x]]

\* PointerHelpers<T>::set: a copy of the value is allocated in the arena and
\* the slot made to refer to it (a null value nulls the slot); what the slot
\* referred to before stays in the arena, abandoned
PointerHelpers_set(kind, p, value) ==
    IF value = NullValue
    THEN WriteSlot(p, 0, objs)
    ELSE WriteSlot(p, Len(objs) + 1, Append(objs, value))

\* PointerHelpers<T>::init(PointerBuilder), T a struct: a fresh default value
PointerHelpers_init(kind, p) ==
    WriteSlot(p, Len(objs) + 1, Append(objs, [kind |-> kind, data |-> 0]))

\* PointerHelpers<T>::init(PointerBuilder, size), T a blob or list: a fresh
\* zeroed value of that size (a blob is abstracted to its size)
PointerHelpers_initSized(kind, p, size) ==
    WriteSlot(p, Len(objs) + 1, Append(objs, [kind |-> kind, data |-> size]))

\* PointerHelpers<T>::adopt: the slot takes over the orphan's value, in place
PointerHelpers_adopt(kind, p, orphan) == WriteSlot(p, orphan, objs)

\* PointerHelpers<T>::disown: the slot's value leaves as an orphan
PointerHelpers_disown(kind, p) ==
    [mem |-> WriteSlot(p, 0, objs), orphan |-> SlotOf(p)]

----------------------------------------------------------------------------
(* SaveParams::Reader and SaveParams::Builder, as generated *)

\* SaveParams::Reader(StructReader base), in the instantiation given by brand
SaveParams_Reader(b, base) == [type |-> "SaveParams", brand |-> b, reader |-> base]

\* SaveParams::Reader() = default
SaveParams_Reader_default(b) == SaveParams_Reader(b, NullStructReader)

\* SaveParams::Builder(StructBuilder base)
SaveParams_Builder(b, base) == [type |-> "SaveParams", brand |-> b, builder |-> base]

\* asReader that returns a default-constructed Reader
Mut_SaveParams_Builder_asReader(b) == SaveParams_Reader_default(b.brand)

\* SaveParams::Builder::operator Reader() / asReader()
SaveParams_Builder_asReader(b) ==
    SaveParams_Reader(b.brand, StructBuilder_asReader(b.builder))

\* asPersistentGeneric that does not pass the underlying reader on
Mut_SaveParams_Reader_asPersistentGeneric(r, brand2) ==
    SaveParams_Reader_default(brand2)

\* SaveParams::Reader::asPersistentGeneric<SturdyRef2, Owner2>()
SaveParams_Reader_asPersistentGeneric(r, brand2) ==
    SaveParams_Reader(brand2, r.reader)

\* SaveParams::Builder::asPersistentGeneric<SturdyRef2, Owner2>()
SaveParams_Builder_asPersistentGeneric(b, brand2) ==
    SaveParams_Builder(brand2, b.builder)

\* hasSealFor without the negation
Mut_SaveParams_Reader_hasSealFor(r) ==
    PointerReader_isNull(StructReader_getPointerField(r.reader, 0))

\* SaveParams::Reader::hasSealFor
SaveParams_Reader_hasSealFor(r) ==
    ~PointerReader_isNull(StructReader_getPointerField(r.reader, 0))

\* hasSealFor without the negation
Mut_SaveParams_Builder_hasSealFor(b) ==
    PointerBuilder_isNull(StructBuilder_getPointerField(b.builder, 0))

\* SaveParams::Builder::hasSealFor
SaveParams_Builder_hasSealFor(b) ==
    ~PointerBuilder_isNull(StructBuilder_getPointerField(b.builder, 0))

\* SaveParams::Reader::getSealFor
SaveParams_Reader_getSealFor(r) ==
    PointerHelpers_get(r.brand.Owner,
                       StructReader_getPointerField(r.reader, 0))

\* SaveParams::Builder::setSealFor
SaveParams_Builder_setSealFor(b, value) ==
    PointerHelpers_set(b.brand.Owner,
                       StructBuilder_getPointerField(b.builder, 0), value)

\* SaveParams::Builder::initSealFor()
SaveParams_Builder_initSealFor(b) ==
    PointerHelpers_init(b.brand.Owner,
                        StructBuilder_getPointerField(b.builder, 0))

\* SaveParams::Builder::initSealFor(unsigned int size)
SaveParams_Builder_initSealForSized(b, size) ==
    PointerHelpers_initSized(b.brand.Owner,
                             StructBuilder_getPointerField(b.builder, 0), size)

\* SaveParams::Builder::adoptSealFor
SaveParams_Builder_adoptSealFor(b, value) ==
    PointerHelpers_adopt(b.brand.Owner,
                         StructBuilder_getPointerField(b.builder, 0), value)

\* a disown that hands out the value and leaves it in the field
Mut_SaveParams_Builder_disownSealFor(b) ==
    [mem |-> [objs |-> objs, structs |-> structs],
     orphan |-> SlotOf(StructBuilder_getPointerField(b.builder, 0))]

\* SaveParams::Builder::disownSealFor
SaveParams_Builder_disownSealFor(b) ==
    PointerHelpers_disown(b.brand.Owner,
                          StructBuilder_getPointerField(b.builder, 0))

----------------------------------------------------------------------------
(* SaveResults::Reader and SaveResults::Builder, as generated *)

\* SaveResults::Reader(StructReader base), in the instantiation given by brand
SaveResults_Reader(b, base) == [type |-> "SaveResults", brand |-> b, reader |-> base]

\* SaveResults::Reader() = default
SaveResults_Reader_default(b) == SaveResults_Reader(b, NullStructReader)

\* SaveResults::Builder(StructBuilder base)
SaveResults_Builder(b, base) == [type |-> "SaveResults", brand |-> b, builder |-> base]

\* SaveResults::Builder::operator Reader() / asReader()
SaveResults_Builder_asReader(b) ==
    SaveResults_Reader(b.brand, StructBuilder_asReader(b.builder))

\* SaveResults::Reader::asPersistentGeneric<SturdyRef2, Owner2>()
SaveResults_Reader_asPersistentGeneric(r, brand2) ==
    SaveResults_Reader(brand2, r.reader)

\* SaveResults::Builder::asPersistentGeneric<SturdyRef2, Owner2>()
SaveResults_Builder_asPersistentGeneric(b, brand2) ==
    SaveResults_Builder(brand2, b.builder)

\* SaveResults::Reader::hasSturdyRef
SaveResults_Reader_hasSturdyRef(r) ==
    ~PointerReader_isNull(StructReader_getPointerField(r.reader, 0))

\* SaveResults::Builder::hasSturdyRef
SaveResults_Builder_hasSturdyRef(b) ==
    ~PointerBuilder_isNull(StructBuilder_getPointerField(b.builder, 0))

\* SaveResults::Reader::getSturdyRef
SaveResults_Reader_getSturdyRef(r) ==
    PointerHelpers_get(r.brand.SturdyRef,
                       StructReader_getPointerField(r.reader, 0))

\* SaveResults::Builder::setSturdyRef
SaveResults_Builder_setSturdyRef(b, value) ==
    PointerHelpers_set(b.brand.SturdyRef,
                       StructBuilder_getPointerField(b.builder, 0), value)

\* SaveResults::Builder::initSturdyRef()
SaveResults_Builder_initSturdyRef(b) ==
    PointerHelpers_init(b.brand.SturdyRef,
                        StructBuilder_getPointerField(b.builder, 0))

\* SaveResults::Builder::initSturdyRef(unsigned int size)
SaveResults_Builder_initSturdyRefSized(b, size) ==
    PointerHelpers_initSized(b.brand.SturdyRef,
                             StructBuilder_getPointerField(b.builder, 0), size)

\* SaveResults::Builder::adoptSturdyRef
SaveResults_Builder_adoptSturdyRef(b, value) ==
    PointerHelpers_adopt(b.brand.SturdyRef,
                         StructBuilder_getPointerField(b.builder, 0), value)

\* SaveResults::Builder::disownSturdyRef
SaveResults_Builder_disownSturdyRef(b) ==
    PointerHelpers_disown(b.brand.SturdyRef,
                          StructBuilder_getPointerField(b.builder, 0))

----------------------------------------------------------------------------
(* The message layer as a state machine: one struct of type ty is built     *)
(* through its Builder, and one received struct of the same type is read   *)

StructSizeOf(t) ==
    IF t = "SaveParams" THEN SaveParams_StructSize ELSE SaveResults_StructSize

\* the kind of pointer field 0 in an instantiation: Owner for
\* SaveParams.sealFor, SturdyRef for SaveResults.sturdyRef
FieldKind(t, b) == IF t = "SaveParams" THEN b.Owner ELSE b.SturdyRef

\* the Builder of the struct under construction
TheBuilder ==
    IF ty = "SaveParams"
    THEN SaveParams_Builder(brand, [struct |-> "built"])
    ELSE SaveResults_Builder(brand, [struct |-> "built"])

Reader_default(t, b) ==
    IF t = "SaveParams" THEN SaveParams_Reader_default(b)
    ELSE SaveResults_Reader_default(b)

Reader_over(t, b, base) ==
    IF t = "SaveParams" THEN SaveParams_Reader(b, base)
    ELSE SaveResults_Reader(b, base)

Builder_asReader(b) ==
    IF b.type = "SaveParams" THEN SaveParams_Builder_asReader(b)
    ELSE SaveResults_Builder_asReader(b)

Reader_asPersistentGeneric(r, brand2) ==
    IF r.type = "SaveParams"
    THEN SaveParams_Reader_asPersistentGeneric(r, brand2)
    ELSE SaveResults_Reader_asPersistentGeneric(r, brand2)

Builder_asPersistentGeneric(b, brand2) ==
    IF b.type = "SaveParams"
    THEN SaveParams_Builder_asPersistentGeneric(b, brand2)
    ELSE SaveResults_Builder_asPersistentGeneric(b, brand2)

Reader_has(r) ==
    IF r.type = "SaveParams" THEN SaveParams_Reader_hasSealFor(r)
    ELSE SaveResults_Reader_hasSturdyRef(r)

Builder_has(b) ==
    IF b.type = "SaveParams" THEN SaveParams_Builder_hasSealFor(b)
    ELSE SaveResults_Builder_hasSturdyRef(b)

Reader_get(r) ==
    IF r.type = "SaveParams" THEN SaveParams_Reader_getSealFor(r)
    ELSE SaveResults_Reader_getSturdyRef(r)

Builder_set(b, value) ==
    IF b.type = "SaveParams" THEN SaveParams_Builder_setSealFor(b, value)
    ELSE SaveResults_Builder_setSturdyRef(b, value)

Builder_init(b) ==
    IF b.type = "SaveParams" THEN SaveParams_Builder_initSealFor(b)
    ELSE SaveResults_Builder_initSturdyRef(b)

Builder_initSized(b, size) ==
    IF b.type = "SaveParams" THEN SaveParams_Builder_initSealForSized(b, size)
    ELSE SaveResults_Builder_initSturdyRefSized(b, size)

Builder_adopt(b, value) ==
    IF b.type = "SaveParams" THEN SaveParams_Builder_adoptSealFor(b, value)
    ELSE SaveResults_Builder_adoptSturdyRef(b, value)

Builder_disown(b) ==
    IF b.type = "SaveParams" THEN SaveParams_Builder_disownSealFor(b)
    ELSE SaveResults_Builder_disownSturdyRef(b)

\* the value an orphan holds: none for the null orphan
OrphanValue(o) == IF o = 0 THEN NullValue ELSE objs[o]

\* a freshly allocated struct of the declared size, and a received struct of
\* k pointer words whose first word, if any, is null or refers to a value
InitMsg ==
    /\ ty \in Types
    /\ brand \in {b \in Brands :
                    IF ty = "SaveParams" THEN b.SturdyRef = "AnyPointer"
                    ELSE b.Owner = "AnyPointer"}
    /\ \E k \in 0..MaxPtrWords, v \in Values \cup {NullValue} :
          /\ k = 0 => v = NullValue
          /\ objs = IF v = NullValue THEN <<>> ELSE <<v>>
          /\ structs =
                [s \in {"built", "received"} |->
                    IF s = "built"
                    THEN [pointerCount |-> StructSizeOf(ty).pointerCount,
                          ptrs |-> [i \in 1..StructSizeOf(ty).pointerCount
                                        |-> 0]]
                    ELSE [pointerCount |-> k,
                          ptrs |-> [i \in 1..k |->
                                      IF i = 1 /\ v # NullValue THEN 1 ELSE 0]]]
    /\ orphans = {}
    /\ rd = Reader_default(ty, brand)
    /\ gen = {}
    /\ lastOp = [op |-> "alloc", value |-> NullValue]

\* the values the Builder has allocated so far (the received ones aside)
Allocated == Len(objs) - Cardinality({i \in 1..Len(structs["received"].ptrs) :
                                         structs["received"].ptrs[i] # 0})

\* builder.setSealFor(value) / builder.setSturdyRef(value)
SetField ==
    /\ \E value \in ValuesOfKind(FieldKind(ty, brand)) :
          /\ value # NullValue => Allocated < MaxAlloc
          /\ objs' = Builder_set(TheBuilder, value).objs
          /\ structs' = Builder_set(TheBuilder, value).structs
          /\ lastOp' = [op |-> "set", value |-> value]
    /\ UNCHANGED <<ty, brand, orphans, rd, gen>>
    /\ UNCHANGED rpcVars

\* builder.initSealFor() / builder.initSturdyRef(), for a struct-typed field
InitField ==
    /\ FieldKind(ty, brand) = "Struct"
    /\ Allocated < MaxAlloc
    /\ objs' = Builder_init(TheBuilder).objs
    /\ structs' = Builder_init(TheBuilder).structs
    /\ lastOp' = [op |-> "init", value |-> DefaultValue("Struct")]
    /\ UNCHANGED <<ty, brand, orphans, rd, gen>>
    /\ UNCHANGED rpcVars

\* builder.initSealFor(size) / builder.initSturdyRef(size), for a blob field
InitFieldSized ==
    /\ FieldKind(ty, brand) = "Text"
    /\ Allocated < MaxAlloc
    /\ \E size \in 0..MaxData :
          /\ objs' = Builder_initSized(TheBuilder, size).objs
          /\ structs' = Builder_initSized(TheBuilder, size).structs
          /\ lastOp' = [op |-> "init",
                        value |-> [kind |-> "Text", data |-> size]]
    /\ UNCHANGED <<ty, brand, orphans, rd, gen>>
    /\ UNCHANGED rpcVars

\* builder.disownSealFor() / builder.disownSturdyRef()
DisownField ==
    /\ objs' = Builder_disown(TheBuilder).mem.objs
    /\ structs' = Builder_disown(TheBuilder).mem.structs
    /\ orphans' = orphans \cup {Builder_disown(TheBuilder).orphan}
    /\ lastOp' = [op |-> "disown",
                  value |-> OrphanValue(Builder_disown(TheBuilder).orphan)]
    /\ UNCHANGED <<ty, brand, rd, gen>>
    /\ UNCHANGED rpcVars

\* builder.adoptSealFor(kj::mv(o)) / builder.adoptSturdyRef(kj::mv(o))
Adopt(o) ==
    /\ objs' = Builder_adopt(TheBuilder, o).objs
    /\ structs' = Builder_adopt(TheBuilder, o).structs
    /\ orphans' = orphans \ {o}
    /\ lastOp' = [op |-> "adopt", value |-> OrphanValue(o)]
    /\ UNCHANGED <<ty, brand, rd, gen>>
    /\ UNCHANGED rpcVars

\* the Builder adopts one of the orphans held
AdoptField == \E o \in orphans : Adopt(o)

\* builder.asReader(): the Reader held becomes the Builder's
AsReader ==
    /\ rd' = Builder_asReader(TheBuilder)
    /\ gen' = {}
    /\ UNCHANGED <<ty, brand, objs, structs, orphans, lastOp>>
    /\ UNCHANGED rpcVars

\* a Reader is bound to the received struct
ReadReceived ==
    /\ rd' = Reader_over(ty, brand, StructReaderAt("received"))
    /\ gen' = {}
    /\ UNCHANGED <<ty, brand, objs, structs, orphans, lastOp>>
    /\ UNCHANGED rpcVars

\* Reader(): the Reader held becomes a default-constructed one
DefaultReader ==
    /\ rd' = Reader_default(ty, brand)
    /\ gen' = {}
    /\ UNCHANGED <<ty, brand, objs, structs, orphans, lastOp>>
    /\ UNCHANGED rpcVars

\* rd.asPersistentGeneric<SturdyRef2, Owner2>(): a view of the Reader held;
\* one view is kept at a time, taken when none is held
RebindReader ==
    /\ gen = {}
    /\ \E brand2 \in Brands :
          gen' = {[of |-> "Reader",
                   view |-> Reader_asPersistentGeneric(rd, brand2)]}
    /\ UNCHANGED <<ty, brand, objs, structs, orphans, rd, lastOp>>
    /\ UNCHANGED rpcVars

\* builder.asPersistentGeneric<SturdyRef2, Owner2>(): a view of the Builder
RebindBuilder ==
    /\ gen = {}
    /\ \E brand2 \in Brands :
          gen' = {[of |-> "Builder",
                   view |-> Builder_asPersistentGeneric(TheBuilder, brand2)]}
    /\ UNCHANGED <<ty, brand, objs, structs, orphans, rd, lastOp>>
    /\ UNCHANGED rpcVars

NextMsg ==
    \/ SetField
    \/ InitField
    \/ InitFieldSized
    \/ DisownField
    \/ AdoptField
    \/ AsReader
    \/ ReadReceived
    \/ DefaultReader

NextGeneric ==
    \/ SetField
    \/ AsReader
    \/ ReadReceived
    \/ DefaultReader
    \/ RebindReader
    \/ RebindBuilder

\* the capability layer at rest: one Server, references made from it, no call
RpcIdle ==
    /\ impl = "default"
    /\ cap = [r \in Refs |-> Client("server")]
    /\ capTrace = [r \in Refs |-> <<cap[r].state>>]
    /\ queue = [r \in Refs |-> <<>>]
    /\ issued = [r \in Refs |-> <<>>]
    /\ calls = [i \in CallIds |-> Unissued]
    /\ dispatchLog = <<>>
    /\ serverState = "running"

\* the message layer alone: no call is in flight
InitMsgOnly == InitMsg /\ RpcIdle

SpecMsg == InitMsgOnly /\ [][NextMsg]_vars

SpecGeneric == InitMsgOnly /\ [][NextGeneric]_vars

\* values moved between the field and orphans
NextOrphan ==
    \/ SetField
    \/ DisownField
    \/ AdoptField

SpecOrphan == InitMsgOnly /\ [][NextOrphan]_vars

Init == InitRpc /\ InitMsg

Next == NextRpc \/ NextCancel \/ NextMsg \/ NextGeneric

Spec == Init /\ [][Next]_vars

----------------------------------------------------------------------------
(* Claims about the wire keys *)

\* C13: in every instantiation, a request made by saveRequest carries the
\* keys (0xc8cb212fcd9f5691, 0); dispatchCall routes that pair, and no other,
\* to save; so a delivered saveRequest invokes save and its failure, if any,
\* is never UnimplementedInterface nor the dispatch's own UnimplementedMethod
\* (an UnimplementedMethod it gets is the one the default save body returned).
C13_WireKeys ==
    /\ \A id \in CallIds :
          calls[id].via = "saveRequest" =>
              /\ calls[id].interfaceId = PersistentTypeId
              /\ calls[id].methodId = 0
    /\ \A interfaceId \in InterfaceIds, methodId \in MethodIds :
          (dispatchCall(interfaceId, methodId,
                        Context(1, NullValue, NullValue)).invoked # <<>>)
            <=> (/\ interfaceId = saveRequest("none").interfaceId
                 /\ methodId = saveRequest("none").methodId)
    /\ \A i \in LogIndex :
          /\ (dispatchLog[i].out.invoked # <<>>) <=> IsSaveKeys(dispatchLog[i])
          /\ calls[dispatchLog[i].callId].via = "saveRequest" =>
                /\ InvokedSaveOnce(dispatchLog[i])
                /\ dispatchLog[i].out.result.promise.exception.type
                      # "UnimplementedInterface"
                /\ dispatchLog[i].out.result.promise.exception.type
                      = "UnimplementedMethod" =>
                      /\ impl = "default"
                      /\ dispatchLog[i].out.result.promise.exception.methodName
                            = "save"
                      /\ dispatchLog[i].out.result.promise
                            = dispatchLog[i].out.invoked[1].returned

\* in an instantiation with both parameters bound, a saveRequest was
\* delivered and answered by an overriding save, and a typeless request with
\* other keys was turned down
C13_Witness ==
    /\ brand.SturdyRef = "Text"
    /\ brand.Owner = "Struct"
    /\ \E i, j \in LogIndex :
          /\ calls[dispatchLog[i].callId].via = "saveRequest"
          /\ calls[dispatchLog[i].callId].state = "fulfilled"
          /\ calls[dispatchLog[j].callId].via = "typeless"
          /\ ~IsSaveKeys(dispatchLog[j])
          /\ calls[dispatchLog[j].callId].state = "failed"

----------------------------------------------------------------------------
(* Claims about cancellation *)

\* the call was delivered to the Server's dispatchCall
Dispatched(id) == \E i \in LogIndex : dispatchLog[i].callId = id

C11_Inv ==
    /\ \A i \in LogIndex :
          IsSaveKeys(dispatchLog[i]) =>
              /\ dispatchLog[i].out.result.isStreaming = FALSE
              /\ dispatchLog[i].out.result.allowCancellation = FALSE
    /\ \A id \in CallIds :
          /\ calls[id].state = "cancelled" =>
                /\ calls[id].droppedWhile = "queued"
                /\ ~Dispatched(id)
                /\ \A r \in Refs : \A k \in 1..Len(queue[r]) :
                                        queue[r][k] # id
          /\ calls[id].droppedWhile = "running" =>
                /\ Dispatched(id)
                /\ calls[id].state \in {"running", "fulfilled", "failed"}
                /\ calls[id].state = "running" => ENABLED Complete(id)

\* C11: dropping the completion handle of a pending save call that is still
\* queued cancels it: it leaves the queue and is never dispatched.  A save
\* call already dispatched is not cancelled by the drop: its dispatch result
\* has isStreaming = false and allowCancellation = false, it stays running
\* and it goes on to completion (fulfilled or failed), its result ignored.
C11_Cancellation ==
    /\ []C11_Inv
    /\ [][\A id \in CallIds :
            (calls[id].droppedWhile = "none"
                /\ calls'[id].droppedWhile # "none") =>
                IF calls[id].state = "queued"
                THEN calls'[id].state = "cancelled"
                ELSE calls'[id].state = calls[id].state]_vars
    /\ \A id \in CallIds :
          (calls[id].droppedWhile = "running")
              ~> (calls[id].state \in {"fulfilled", "failed"})

\* one save call was dropped while queued and cancelled, another was dropped
\* after its save had started and completed all the same
C11_Witness ==
    \E id1, id2 \in CallIds :
        /\ calls[id1].via = "saveRequest"
        /\ calls[id1].state = "cancelled"
        /\ calls[id2].via = "saveRequest"
        /\ calls[id2].droppedWhile = "running"
        /\ calls[id2].state = "fulfilled"
        /\ calls[id2].results = SturdyRefOf(Context(id2, calls[id2].params,
                                                    NullValue))

----------------------------------------------------------------------------
(* Claims about the Reader and Builder of SaveParams and SaveResults *)

\* the word in pointer slot 0 of the struct under construction
BuiltSlot == structs["built"].ptrs[1]

\* C5: after any sequence of Builder operations on pointer field 0 that ends
\* in setSealFor(v) (setSturdyRef(v)), the Reader obtained from the Builder
\* reads exactly v from the field, and it reads the Builder's own slot: a
\* Reader taken from the Builder before the operations reads v as well.
C5_SetThenRead ==
    lastOp.op = "set" =>
        /\ Reader_get(Builder_asReader(TheBuilder)) = lastOp.value
        /\ Builder_asReader(TheBuilder).reader.struct
              = TheBuilder.builder.struct
        /\ Builder_asReader(TheBuilder).reader.pointerCount
              = structs["built"].pointerCount
        /\ rd.reader.struct = "built" => Reader_get(rd) = lastOp.value

\* a value was set over an earlier one while a Reader of the Builder was held
C5_Witness ==
    /\ lastOp.op = "set"
    /\ lastOp.value \in Values
    /\ lastOp.value.data = 1
    /\ Allocated = 2
    /\ rd.reader.struct = "built"

\* C6: whatever set/init/adopt/disown operations were made, hasSealFor()
\* (hasSturdyRef()) of the Builder and of its Reader is true exactly when
\* pointer slot 0 is non-null: false on the freshly allocated struct and
\* after disown, true after init and after set or adopt of a non-null value.
C6_HasIffNonNull ==
    /\ Builder_has(TheBuilder) = (BuiltSlot # 0)
    /\ Reader_has(Builder_asReader(TheBuilder)) = (BuiltSlot # 0)
    /\ rd.reader.pointerCount > 0 =>
          Reader_has(rd) = (structs[rd.reader.struct].ptrs[1] # 0)
    /\ lastOp.op \in {"alloc", "disown"} => ~Builder_has(TheBuilder)
    /\ lastOp.op = "init" => Builder_has(TheBuilder)
    /\ lastOp.op \in {"set", "adopt"} =>
          Builder_has(TheBuilder) = (lastOp.value # NullValue)

\* a value was disowned and adopted again: the field is present
C6_Witness ==
    /\ lastOp.op = "adopt"
    /\ lastOp.value # NullValue
    /\ Builder_has(TheBuilder)
    /\ Reader_has(Builder_asReader(TheBuilder))

\* C7: SaveParams and SaveResults are declared with 0 data words and 1
\* pointer word; a Reader over a struct encoded with 0 pointer words, or a
\* default-constructed Reader, has no field 0 (has is false), gets the
\* schema default from it, and reads nothing outside the struct's stored
\* words.
C7_TruncatedReadsDefault ==
    /\ StructSizeOf(ty) = [dataWordCount |-> 0, pointerCount |-> 1]
    /\ structs["built"].pointerCount = 1
    /\ rd.reader.pointerCount = 0 =>
          /\ ~Reader_has(rd)
          /\ Reader_get(rd) = DefaultValue(FieldKind(ty, rd.brand))
          /\ StructReader_getPointerField(rd.reader, 0) = NullPointerReader
    /\ StructReader_getPointerField(rd.reader, 0).segment # "none" =>
          StructReader_getPointerField(rd.reader, 0).index
              < structs[rd.reader.struct].pointerCount
    /\ Reader_get(rd) # Fault

\* a Reader over a received struct of 0 pointer words, its field typed as a
\* struct
C7_Witness ==
    /\ rd.reader.segment = "msg"
    /\ rd.reader.struct = "received"
    /\ rd.reader.pointerCount = 0
    /\ FieldKind(ty, rd.brand) = "Struct"
    /\ lastOp.op = "set"

\* C8: a view made by asPersistentGeneric refers to the very struct its
\* origin refers to; under two bindings that type field 0 alike, has and get
\* of field 0 give the same through either view and through the origin;
\* making the view changes nothing in the message.
C8_RebindInv ==
    /\ \A g \in gen :
          /\ g.of = "Reader" =>
                /\ g.view.reader = rd.reader
                /\ g.view.type = rd.type
                /\ FieldKind(ty, g.view.brand) = FieldKind(ty, rd.brand) =>
                      /\ Reader_has(g.view) = Reader_has(rd)
                      /\ Reader_get(g.view) = Reader_get(rd)
          /\ g.of = "Builder" =>
                /\ g.view.builder = TheBuilder.builder
                /\ g.view.type = TheBuilder.type
                /\ FieldKind(ty, g.view.brand) = FieldKind(ty, brand) =>
                      /\ Builder_has(g.view) = Builder_has(TheBuilder)
                      /\ Reader_get(Builder_asReader(g.view))
                            = Reader_get(Builder_asReader(TheBuilder))
    /\ \A b1, b2 \in Brands :
          FieldKind(ty, b1) = FieldKind(ty, b2) =>
              /\ Reader_asPersistentGeneric(rd, b1).reader
                    = Reader_asPersistentGeneric(rd, b2).reader
              /\ Reader_has(Reader_asPersistentGeneric(rd, b1))
                    = Reader_has(Reader_asPersistentGeneric(rd, b2))
              /\ Reader_get(Reader_asPersistentGeneric(rd, b1))
                    = Reader_get(Reader_asPersistentGeneric(rd, b2))

C8_Rebind ==
    /\ []C8_RebindInv
    /\ [][(gen' # gen /\ gen' # {}) =>
              (objs' = objs /\ structs' = structs /\ rd' = rd)]_vars

\* a Reader of a present field was rebound to another binding that types the
\* field alike
C8_Witness ==
    \E g \in gen :
        /\ g.of = "Reader"
        /\ g.view.brand # rd.brand
        /\ FieldKind(ty, g.view.brand) = FieldKind(ty, rd.brand)
        /\ FieldKind(ty, rd.brand) = "Struct"
        /\ Reader_has(g.view)
        /\ Reader_get(g.view).data = 1

----------------------------------------------------------------------------
(* Claims about orphans *)

\* what get reads of the value an orphan holds once it is in a field of the
\* given kind: a null orphan reads as the field's default
ReadOf(o) ==
    IF o = 0 THEN DefaultValue(FieldKind(ty, brand)) ELSE objs[o]

\* a value is in the field or in an orphan, never in both
C12_Inv ==
    /\ \A o \in orphans : o \in 0..Len(objs)
    /\ BuiltSlot # 0 => BuiltSlot \notin orphans

C12_Disown ==
    (lastOp'.op = "disown" /\ DisownField) =>
        LET before == Reader_get(Builder_asReader(TheBuilder))
            w == BuiltSlot
        IN  /\ orphans' = orphans \cup {w}
            /\ ReadOf(w) = before
            /\ BuiltSlot' = 0
            /\ (~Builder_has(TheBuilder))'
            /\ (~Reader_has(Builder_asReader(TheBuilder)))'
            /\ objs' = objs
            /\ structs'["received"] = structs["received"]
            /\ structs'["built"].pointerCount = structs["built"].pointerCount

C12_Adopt ==
    \A o \in orphans :
        (lastOp'.op = "adopt" /\ Adopt(o)) =>
            LET disowned == ReadOf(o)
                w == BuiltSlot
            IN  /\ Reader_get(Builder_asReader(TheBuilder))' = disowned
                /\ Builder_has(TheBuilder)' = (o # 0)
                /\ BuiltSlot' = o
                /\ orphans' = orphans \ {o}
                /\ objs' = objs
                /\ (w # 0 /\ w # o) => (w \notin orphans' /\ BuiltSlot' # w)
                /\ structs'["received"] = structs["received"]
                /\ structs'["built"].pointerCount
                      = structs["built"].pointerCount

\* C12: a disown moves the value of pointer field 0 into an orphan and leaves
\* the field null (has false); adopting an orphan makes get of the field
\* return exactly the value that was disowned, without a copy; the value the
\* adopting field had before stays in the arena, referred to by nothing;
\* the other struct of the message and the struct's size do not change, and
\* no value already in the arena ever changes.
C12_AdoptDisown ==
    /\ []C12_Inv
    /\ [][/\ C12_Disown
          /\ C12_Adopt
          /\ SubSeq(objs', 1, Len(objs)) = objs]_vars

\* a value was disowned, a younger one was set in its place, and the orphan
\* was adopted back over it: the field is struct-typed, so no set nulls it,
\* and the youngest value of the arena is neither in the field nor in an
\* orphan
C12_Witness ==
    /\ lastOp.op = "adopt"
    /\ lastOp.value # NullValue
    /\ FieldKind(ty, brand) = "Struct"
    /\ structs["received"].pointerCount = 0
    /\ BuiltSlot # 0
    /\ BuiltSlot < Len(objs)
    /\ Len(objs) \notin orphans
    /\ objs[Len(objs)] # objs[BuiltSlot]
    /\ Reader_get(Builder_asReader(TheBuilder)) = lastOp.value

====
